---- MODULE Spec2Model ----
(***************************************************************************)
(* Mandelbrot viewer: the shader-evaluated renderer (mandelbrot.js,        *)
(* "variant A") and the decimal.js renderer (unnamed/part_000, "variant    *)
(* B").  The model covers the viewport state and its input handlers, the   *)
(* startup sequence of window.onload, and the escape-time evaluation of    *)
(* one pixel / one frame.                                                  *)
(*                                                                         *)
(* Numbers are modelled with their rounding: a number is a record          *)
(* [s, m, e] of value (-1)^s * m * radix^e whose coefficient m is an       *)
(* arbitrary-size natural (a little-endian sequence of 15-bit limbs), and  *)
(* every arithmetic operation rounds its exact result to the precision of  *)
(* the format: IEEE binary64 for JavaScript numbers, binary32 for the      *)
(* shader's floats, 20 significant decimal digits rounded half-up for      *)
(* decimal.js (its default configuration).  The exponent is unbounded:     *)
(* overflow to Infinity and underflow are outside the bounds explored.     *)
(***************************************************************************)
EXTENDS Integers, Sequences, FiniteSets, Bags

----------------------------------------------------------------------------
(* Arbitrary-size naturals: little-endian sequences of limbs below BASE,   *)
(* the most significant limb nonzero.                                      *)

BASE == 32768
LIMBBITS == 15

Pow2(n) ==
    <<1, 2, 4, 8, 16, 32, 64, 128, 256, 512, 1024, 2048, 4096, 8192, 16384,
      32768, 65536, 131072, 262144, 524288, 1048576, 2097152, 4194304,
      8388608, 16777216, 33554432, 67108864, 134217728, 268435456,
      536870912, 1073741824>>[n + 1]

Max(x, y) == IF x >= y THEN x ELSE y

BnLimb(a, i) == IF 1 <= i /\ i <= Len(a) THEN a[i] ELSE 0

\* the sequence of the first n values of the function d
BnSeq(d, n) == SubSeq(d, 1, n)

\* number of limbs of d up to its most significant nonzero one
BnTop(d) == Cardinality({i \in 1..Len(d) : \E j \in i..Len(d) : d[j] # 0})

BnTrim(d) == SubSeq(d, 1, BnTop(d))

\* the carry into limb i of the digit sums s, each below 2 * BASE
BnCarry(s, i) ==
    \E j \in 1..(i - 1) :
        s[j] >= BASE /\ \A k \in (j + 1)..(i - 1) : s[k] = BASE - 1

BnCarried(s, n) ==
    IF s = <<>> THEN <<>>
    ELSE BnTrim(BnSeq([i \in 1..(n + 1) |->
                    (BnLimb(s, i) + (IF BnCarry(s, i) THEN 1 ELSE 0)) % BASE], n + 1))

\* the natural whose limb i is s[i], for n digit sums s[i] < 2 * BASE
BnResolve(s, n) == BnCarried(BnSeq(s, n), n)

BnAddN(a, b, n) == BnResolve([i \in 1..n |-> BnLimb(a, i) + BnLimb(b, i)], n)

BnAdd(a, b) ==
    IF a = <<>> THEN b ELSE IF b = <<>> THEN a ELSE BnAddN(a, b, Max(Len(a), Len(b)))

\* the borrow out of the limbs below i in a - b
BnBorrow(a, b, i) ==
    \E j \in 1..(i - 1) :
        a[j] < BnLimb(b, j) /\ \A k \in (j + 1)..(i - 1) : a[k] = BnLimb(b, k)

\* a - b, for a >= b
BnSub(a, b) ==
    IF b = <<>> THEN a
    ELSE BnTrim(BnSeq([i \in 1..Len(a) |->
                    (a[i] - BnLimb(b, i) - (IF BnBorrow(a, b, i) THEN 1 ELSE 0) + BASE)
                        % BASE], Len(a)))

\* -1, 0, 1 as a < b, a = b, a > b
BnCmp(a, b) ==
    IF Len(a) # Len(b) THEN (IF Len(a) < Len(b) THEN -1 ELSE 1)
    ELSE IF a = b THEN 0
    ELSE IF \E i \in 1..Len(a) :
                a[i] > b[i] /\ \A k \in (i + 1)..Len(a) : a[k] = b[k]
         THEN 1 ELSE -1

\* a * k, for 0 <= k < 2 * BASE
BnMulSmall(a, k) ==
    IF k = 0 \/ a = <<>> THEN <<>>
    ELSE BnResolve([i \in 1..(Len(a) + 1) |->
                      ((BnLimb(a, i) * k) % BASE) + ((BnLimb(a, i - 1) * k) \div BASE)],
                   Len(a) + 1)

\* the sum of the values of the function t on the finite set S
BnSum(t, S) == BagCardinality([i \in S |-> t[i] + 1]) - Cardinality(S)

\* the limbs of a that meet a limb of b in column k of the product
BnColumn(a, b, k) == {i \in 1..Len(a) : 1 <= k + 1 - i /\ k + 1 - i <= Len(b)}

\* column k of the schoolbook product: the low parts of its limb products
\* and the high parts of those of column k - 1
BnColumnSum(a, b, k) ==
    BnSum([i \in 1..Len(a) |-> (a[i] * BnLimb(b, k + 1 - i)) % BASE], BnColumn(a, b, k))
    + BnSum([i \in 1..Len(a) |-> (a[i] * BnLimb(b, k - i)) \div BASE], BnColumn(a, b, k - 1))

BnMulCols(cols, n) ==
    BnResolve([k \in 1..(n + 1) |-> (BnLimb(cols, k) % BASE) + (BnLimb(cols, k - 1) \div BASE)],
              n + 1)

BnMulN(a, b, n) == BnMulCols(BnSeq([k \in 1..n |-> BnColumnSum(a, b, k)], n), n)

BnMul(a, b) == IF a = <<>> \/ b = <<>> THEN <<>> ELSE BnMulN(a, b, Len(a) + Len(b))

SmallBitLen(n) == Cardinality({j \in 0..(LIMBBITS - 1) : n >= Pow2(j)})

BnBitLen(a) == IF a = <<>> THEN 0 ELSE LIMBBITS * (Len(a) - 1) + SmallBitLen(a[Len(a)])

\* floor(a / 2^(LIMBBITS * w + u)), for a value below 2^30
BnWindow(a, w, u) ==
    (BnLimb(a, w + 1) \div Pow2(u)) + BnLimb(a, w + 2) * Pow2(LIMBBITS - u)
    + BnLimb(a, w + 3) * Pow2(2 * LIMBBITS - u)

\* qhat <= floor(r / b) <= qhat + 6: the leading 30 bits of r by the leading
\* 15 bits of b, rounded against the quotient
BnEstimate(b, r, sh) ==
    IF sh <= 0 THEN BnWindow(r, 0, 0) \div BnWindow(b, 0, 0)
    ELSE BnWindow(r, sh \div LIMBBITS, sh % LIMBBITS)
         \div (BnWindow(b, sh \div LIMBBITS, sh % LIMBBITS) + 1)

BnCorrected(b, r, qhat) ==
    qhat + Cardinality({t \in 1..6 : BnCmp(BnMulSmall(b, qhat + t), r) <= 0})

\* floor(r / b), for r < BASE * b
BnDigit(b, r) == BnCorrected(b, r, BnEstimate(b, r, BnBitLen(b) - LIMBBITS))

\* BASE * r + limb
BnShiftIn(r, limb) == IF r = <<>> /\ limb = 0 THEN <<>> ELSE <<limb>> \o r

\* long division, one limb of a at a time from the most significant: st.i
\* limbs are still to come, st.q is the quotient so far, st.r the remainder
BnDivPut(b, st, r, d) ==
    [i |-> st.i - 1, q |-> <<d>> \o st.q, r |-> BnSub(r, BnMulSmall(b, d))]

BnDivDigit(b, st, r) == BnDivPut(b, st, r, BnDigit(b, r))

RECURSIVE BnDivLimbs(_, _, _)
BnDivLimbs(a, b, st) ==
    IF st.i = 0 THEN st
    ELSE BnDivLimbs(a, b, BnDivDigit(b, st, BnShiftIn(st.r, a[st.i])))

BnDivFrom(a, b, n) ==
    BnDivLimbs(a, b, [i |-> n, q |-> <<>>, r |-> SubSeq(a, n + 1, Len(a))])

BnTrimQ(d) == [q |-> BnTrim(d.q), r |-> d.r]

\* quotient and remainder of a by b, for b > 0
BnDivMod(a, b) ==
    IF Len(a) < Len(b) THEN [q |-> <<>>, r |-> a]
    ELSE BnTrimQ(BnDivFrom(a, b, Len(a) - Len(b) + 1))

BnFromNat(n) ==
    BnTrim(<<n % BASE, (n \div BASE) % BASE, n \div (BASE * BASE)>>)

\* the value of a < 2^31
BnToNat(a) == BnLimb(a, 1) + BASE * BnLimb(a, 2) + BASE * BASE * BnLimb(a, 3)

\* acc * r^k
RECURSIVE BnTimesPow(_, _, _)
BnTimesPow(acc, r, k) ==
    IF k = 0 \/ acc = <<>> THEN acc
    ELSE IF k >= 4 THEN BnTimesPow(BnMulSmall(acc, r * r * r * r), r, k - 4)
    ELSE BnTimesPow(BnMulSmall(acc, r), r, k - 1)

\* 2^k
BnPow2(k) ==
    BnSeq([i \in 1..(k \div LIMBBITS + 1) |->
             IF i = k \div LIMBBITS + 1 THEN Pow2(k % LIMBBITS) ELSE 0],
          k \div LIMBBITS + 1)

\* r^k
BnPow(r, k) == IF r = 2 THEN BnPow2(k) ELSE BnTimesPow(<<1>>, r, k)

----------------------------------------------------------------------------
(* Rounded arithmetic.  A format gives the radix, the number of            *)
(* significant digits kept, and how a tie is broken.  A nonzero number     *)
(* [s, m, e] of a format has a coefficient m of exactly prec digits.       *)

Float64 == [radix |-> 2, prec |-> 53, tie |-> "even"]
Float32 == [radix |-> 2, prec |-> 24, tie |-> "even"]
Dec20 == [radix |-> 10, prec |-> 20, tie |-> "up"]

Zero == [s |-> 0, m |-> <<>>, e |-> 0]

\* number of decimal digits of m > 0, which is est - 1, est or est + 1
DecLen(m, est) ==
    est - 1 + Cardinality({j \in {est - 1, est} :
                              j < 0 \/ BnCmp(m, BnPow(10, j)) >= 0})

\* number of radix-r digits of the natural m > 0
RadixLen(m, r) ==
    IF r = 2 THEN BnBitLen(m) ELSE DecLen(m, (BnBitLen(m) * 1233) \div 4096)

\* the coefficient m written with k more digits
NumPad(s, m, e, f, k) ==
    [s |-> s, m |-> IF k = 0 THEN m ELSE BnMul(m, BnPow(f.radix, k)), e |-> e - k]

\* h compares twice the dropped part with one unit of the kept coefficient q
RoundsUp(f, sticky, q, h) ==
    IF f.tie = "up" THEN h >= 0
    ELSE h > 0 \/ (h = 0 /\ (sticky \/ BnLimb(q, 1) % 2 = 1))

\* a coefficient rounded up to radix^prec is the next power of the radix
NumCarry(s, q, e, f) ==
    IF BnCmp(q, BnPow(f.radix, f.prec)) = 0
    THEN [s |-> s, m |-> BnPow(f.radix, f.prec - 1), e |-> e + 1]
    ELSE [s |-> s, m |-> q, e |-> e]

NumRoundQ(s, e, sticky, f, d, qr) ==
    IF qr.r = <<>> /\ ~sticky THEN [s |-> s, m |-> qr.q, e |-> e]
    ELSE IF RoundsUp(f, sticky, qr.q, BnCmp(BnMulSmall(qr.r, 2), d))
    THEN NumCarry(s, BnAdd(qr.q, <<1>>), e, f)
    ELSE [s |-> s, m |-> qr.q, e |-> e]

NumRoundD(s, m, e, sticky, f, d) == NumRoundQ(s, e, sticky, f, d, BnDivMod(m, d))

\* k: the number of digits of m beyond the format's precision
NumRoundK(s, m, e, sticky, f, k) ==
    IF k <= 0 THEN NumPad(s, m, e, f, 0 - k)
    ELSE NumRoundD(s, m, e + k, sticky, f, BnPow(f.radix, k))

\* round the exact value (-1)^s * m * radix^e (plus a positive remainder
\* below one unit of m when sticky) to the format f
NumRound(s, m, e, sticky, f) ==
    IF m = <<>> THEN Zero
    ELSE NumRoundK(s, m, e, sticky, f, RadixLen(m, f.radix) - f.prec)

NumFromInt(n, f) ==
    NumRound(IF n < 0 THEN 1 ELSE 0, BnFromNat(IF n < 0 THEN 0 - n ELSE n), 0, FALSE, f)

NumNeg(a) == IF a.m = <<>> THEN a ELSE [a EXCEPT !.s = 1 - @]

NumMul(a, b, f) ==
    IF a.m = <<>> \/ b.m = <<>> THEN Zero
    ELSE NumRound((a.s + b.s) % 2, BnMul(a.m, b.m), a.e + b.e, FALSE, f)

NumDivQ(s, e, f, qr) == NumRound(s, qr.q, e, qr.r # <<>>, f)

\* k: the scaling that gives the quotient two digits more than the precision
NumDivK(a, b, f, k) ==
    NumDivQ((a.s + b.s) % 2, a.e - b.e - k, f,
            IF k >= 0 THEN BnDivMod(BnMul(a.m, BnPow(f.radix, k)), b.m)
            ELSE BnDivMod(a.m, BnMul(b.m, BnPow(f.radix, 0 - k))))

\* a / b, for b # 0
NumDiv(a, b, f) ==
    IF a.m = <<>> THEN Zero
    ELSE NumDivK(a, b, f, f.prec + 2 + RadixLen(b.m, f.radix) - RadixLen(a.m, f.radix))

\* ma, mb: the coefficients at the common exponent e; cmp compares them
NumAddC(sa, sb, ma, mb, e, f, cmp) ==
    IF sa # sb /\ cmp = 0 THEN Zero
    ELSE NumRound(IF sa = sb \/ cmp > 0 THEN sa ELSE sb,
                  IF sa = sb THEN BnAdd(ma, mb)
                  ELSE IF cmp > 0 THEN BnSub(ma, mb) ELSE BnSub(mb, ma),
                  e, FALSE, f)

NumAddM(sa, sb, ma, mb, e, f) == NumAddC(sa, sb, ma, mb, e, f, BnCmp(ma, mb))

NumAddE(a, b, e, f) ==
    NumAddM(a.s, b.s, BnMul(a.m, BnPow(f.radix, a.e - e)),
            BnMul(b.m, BnPow(f.radix, b.e - e)), e, f)

\* an operand more than prec + 2 digits below the other one is less than
\* half of the smallest step next to it, and leaves it as it is
NumAdd(a, b, f) ==
    IF a.m = <<>> THEN b
    ELSE IF b.m = <<>> THEN a
    ELSE IF a.e - b.e > f.prec + 2 THEN a
    ELSE IF b.e - a.e > f.prec + 2 THEN b
    ELSE NumAddE(a, b, IF a.e < b.e THEN a.e ELSE b.e, f)

NumSub(a, b, f) == NumAdd(a, NumNeg(b), f)

NumSign(a) == IF a.m = <<>> THEN 0 ELSE IF a.s = 1 THEN -1 ELSE 1

\* comparison of the magnitudes of two nonzero numbers of one format
NumCmpAbs(a, b) ==
    IF a.e # b.e THEN (IF a.e < b.e THEN -1 ELSE 1) ELSE BnCmp(a.m, b.m)

\* -1, 0, 1 as a < b, a = b, a > b, for two numbers of one format
NumCmp(a, b) ==
    IF NumSign(a) # NumSign(b) THEN (IF NumSign(a) < NumSign(b) THEN -1 ELSE 1)
    ELSE IF NumSign(a) = 0 THEN 0
    ELSE NumSign(a) * NumCmpAbs(a, b)

\* Math.floor of a non-negative number below 2^31, as an integer
NumFloor(a, f) ==
    IF a.m = <<>> THEN 0
    ELSE IF a.e >= 0 THEN BnToNat(BnMul(a.m, BnPow(f.radix, a.e)))
    ELSE BnToNat(BnDivMod(a.m, BnPow(f.radix, 0 - a.e)).q)

----------------------------------------------------------------------------
(* Bounds of the exploration.                                              *)

\* frames drawn in one session, the first one of window.onload included
MaxFrames == 3

\* clientX / clientY of the pointer events
PointerPositions == {<<3, 1>>, <<1, 2>>}

\* clientWidth / clientHeight of the canvas, as reported at a resize
ClientSizes == {<<800, 600>>, <<4, 2>>}

\* deltaY of the wheel events
DeltaYs == {-100, 0, 100}

----------------------------------------------------------------------------
(* Viewport state, startup and input handlers.                             *)

VARIABLES
    variant,            \* "A": mandelbrot.js, "B": unnamed/part_000
    pc,                 \* "loading", "running" (listeners registered), "crashed"
    glFailure,          \* what went wrong in initWebGL: "none", "context", "compile", "link"
    alerts,             \* number of alert() notifications shown
    exception,          \* an uncaught exception left window.onload
    offset,             \* <<real, imag>> centre offset
    zoom,
    isDragging,
    lastMousePosition,
    canvas,             \* <<gl.canvas.width, gl.canvas.height>>
    draws,              \* number of drawScene calls so far
    frame,              \* arguments of the last drawScene call
    event,              \* the last event handled: its type and, for pointer events, its position
    wheelIn,            \* wheel events with deltaY < 0 so far
    wheelOut            \* the other wheel events so far

ctlVars == <<variant, pc, glFailure, alerts, exception, offset, zoom, isDragging,
             lastMousePosition, canvas, draws, frame, event, wheelIn, wheelOut>>

Fmt(v) == IF v = "A" THEN Float64 ELSE Dec20

\* let zoom = .5
InitialZoomA == NumDiv(NumFromInt(1, Float64), NumFromInt(2, Float64), Float64)

\* let zoom = new Decimal(200)
InitialZoomB == NumFromInt(200, Dec20)

InitialZoom(v) == IF v = "A" THEN InitialZoomA ELSE InitialZoomB

\* const zoomFactor = 1.1
ZoomFactorA == NumDiv(NumFromInt(11, Float64), NumFromInt(10, Float64), Float64)

\* const zoomFactor = new Decimal(1.1)
ZoomFactorB == NumDiv(NumFromInt(11, Dec20), NumFromInt(10, Dec20), Dec20)

ZoomFactor(v) == IF v = "A" THEN ZoomFactorA ELSE ZoomFactorB

\* 1 / zoomFactor
InverseZoomFactorA == NumDiv(NumFromInt(1, Float64), ZoomFactorA, Float64)

\* width and height of a canvas element before any script sizes it
DefaultCanvas == <<300, 150>>

CtlInit ==
    /\ variant \in {"A", "B"}
    /\ pc = "loading"
    /\ glFailure = "none"
    /\ alerts = 0
    /\ exception = FALSE
    /\ offset = <<Zero, Zero>>
    /\ zoom = InitialZoom(variant)
    /\ isDragging = FALSE
    /\ lastMousePosition = <<0, 0>>
    /\ canvas = DefaultCanvas
    /\ draws = 0
    /\ frame = [offset |-> <<Zero, Zero>>, zoom |-> Zero, size |-> <<0, 0>>]
    /\ event = [type |-> "none"]
    /\ wheelIn = 0
    /\ wheelOut = 0

\* drawScene: the uniforms (variant A) or the arguments of calculateMandelbrot
\* (variant B), and one draw of the quad
drawScene(off, zm, size) ==
    /\ frame' = [offset |-> off, zoom |-> zm, size |-> size]
    /\ draws' = draws + 1

\* window.onload.  fail: what initWebGL runs into; strict: the WebGL binding
\* throws a TypeError when handed null for a shader or program (a binding
\* that does not throw records a GL error and carries on); size: the canvas's
\* client size.
Onload(fail, strict, size) ==
    /\ pc = "loading"
    /\ glFailure' = fail
    /\ event' = [type |-> "load"]
    /\ alerts' = IF fail = "none" THEN 0
                 ELSE IF fail = "compile" /\ ~strict THEN 2
                 ELSE 1
    /\ IF fail = "context" \/ (fail \in {"compile", "link"} /\ strict)
       THEN \* initWebGL returns after the alert and resizeCanvas reads
            \* gl.canvas of a null gl; or attachShader / getAttribLocation
            \* throws on the null returned after the alert
            /\ exception' = TRUE
            /\ pc' = "crashed"
            /\ UNCHANGED <<canvas, draws, frame>>
       ELSE /\ exception' = FALSE
            /\ pc' = "running"
            /\ canvas' = size
            /\ drawScene(offset, zoom, size)
    /\ UNCHANGED <<variant, offset, zoom, isDragging, lastMousePosition,
                   wheelIn, wheelOut>>

resizeCanvas(size) ==
    canvas' = IF canvas[1] # size[1] \/ canvas[2] # size[2] THEN size ELSE canvas

\* the window's resize listener
Resize(size) ==
    /\ pc = "running"
    /\ draws < MaxFrames
    /\ event' = [type |-> "resize"]
    /\ resizeCanvas(size)
    /\ drawScene(offset, zoom, canvas')
    /\ UNCHANGED <<variant, pc, glFailure, alerts, exception, offset, zoom,
                   isDragging, lastMousePosition, wheelIn, wheelOut>>

handleMouseDown(p) ==
    /\ pc = "running"
    /\ event' = [type |-> "mousedown", pos |-> p]
    /\ isDragging' = TRUE
    /\ lastMousePosition' = p
    /\ UNCHANGED <<variant, pc, glFailure, alerts, exception, offset, zoom,
                   canvas, draws, frame, wheelIn, wheelOut>>

DragStepMagnitude(v, zm, extent, d) ==
    IF v = "A"
    THEN NumDiv(NumFromInt(IF d < 0 THEN 0 - d ELSE d, Float64),
                NumMul(NumFromInt(extent, Float64), zm, Float64), Float64)
    ELSE NumDiv(NumFromInt(IF d < 0 THEN 0 - d ELSE d, Dec20), zm, Dec20)

\* what a pointer displacement of d pixels along an axis of the given extent
\* adds to the offset: d / (extent * zoom) in variant A, d / zoom in variant B
DragStep(v, zm, extent, d) ==
    IF v = "A"
    THEN NumDiv(NumFromInt(d, Float64),
                NumMul(NumFromInt(extent, Float64), zm, Float64), Float64)
    ELSE NumDiv(NumFromInt(d, Dec20), zm, Dec20)

DragOffsetSameSign(v, off, zm, size, last, p) ==
    <<NumAdd(off[1], DragStep(v, zm, size[1], p[1] - last[1]), Fmt(v)),
      NumAdd(off[2], DragStep(v, zm, size[2], p[2] - last[2]), Fmt(v))>>

\* the offset handleMouseMove computes while dragging
DragOffset(v, off, zm, size, last, p) ==
    <<NumSub(off[1], DragStep(v, zm, size[1], p[1] - last[1]), Fmt(v)),
      NumAdd(off[2], DragStep(v, zm, size[2], p[2] - last[2]), Fmt(v))>>

handleMouseMoveAlways(p) ==
    /\ pc = "running"
    /\ event' = [type |-> "mousemove", pos |-> p]
    /\ draws < MaxFrames
    /\ offset' = DragOffset(variant, offset, zoom, canvas, lastMousePosition, p)
    /\ lastMousePosition' = p
    /\ drawScene(offset', zoom, canvas)
    /\ UNCHANGED <<variant, pc, glFailure, alerts, exception, zoom, isDragging,
                   canvas, wheelIn, wheelOut>>

handleMouseMove(p) ==
    /\ pc = "running"
    /\ event' = [type |-> "mousemove", pos |-> p]
    /\ IF isDragging
       THEN /\ draws < MaxFrames
            /\ offset' = DragOffset(variant, offset, zoom, canvas, lastMousePosition, p)
            /\ lastMousePosition' = p
            /\ drawScene(offset', zoom, canvas)
       ELSE UNCHANGED <<offset, lastMousePosition, draws, frame>>
    /\ UNCHANGED <<variant, pc, glFailure, alerts, exception, zoom, isDragging,
                   canvas, wheelIn, wheelOut>>

handleMouseUp ==
    /\ pc = "running"
    /\ event' = [type |-> "mouseup"]
    /\ isDragging' = FALSE
    /\ UNCHANGED <<variant, pc, glFailure, alerts, exception, offset, zoom,
                   lastMousePosition, canvas, draws, frame, wheelIn, wheelOut>>

WheelZoomAdditive(v, zm, deltaY) ==
    IF deltaY < 0 THEN NumAdd(zm, ZoomFactor(v), Fmt(v))
    ELSE NumSub(zm, ZoomFactor(v), Fmt(v))

WheelZoomByTenth(v, zm, deltaY) ==
    IF deltaY < 0 THEN NumMul(zm, ZoomFactor(v), Fmt(v))
    ELSE NumMul(zm, NumDiv(NumFromInt(9, Fmt(v)), NumFromInt(10, Fmt(v)), Fmt(v)), Fmt(v))

\* the zoom handleWheel computes
WheelZoom(v, zm, deltaY) ==
    IF deltaY < 0 THEN NumMul(zm, ZoomFactor(v), Fmt(v))
    ELSE IF v = "A" THEN NumMul(zm, InverseZoomFactorA, Float64)
    ELSE NumDiv(zm, ZoomFactorB, Dec20)

handleWheel(deltaY) ==
    /\ pc = "running"
    /\ draws < MaxFrames
    /\ event' = [type |-> "wheel"]
    /\ zoom' = WheelZoom(variant, zoom, deltaY)
    /\ drawScene(offset, zoom', canvas)
    /\ wheelIn' = IF deltaY < 0 THEN wheelIn + 1 ELSE wheelIn
    /\ wheelOut' = IF deltaY < 0 THEN wheelOut ELSE wheelOut + 1
    /\ UNCHANGED <<variant, pc, glFailure, alerts, exception, offset, isDragging,
                   lastMousePosition, canvas>>

----------------------------------------------------------------------------
(* Escape-time evaluation of the frame handed to drawScene: the fragment   *)
(* shader of variant A, run for one fragment at a time, and                *)
(* calculateMandelbrot of variant B.  One step of the model is one pass    *)
(* through the body of the iteration loop.                                 *)

MAX_ITERATIONS_A == 100
MAX_ITERATIONS_B == 1000
escapeRadius == 4
ESCAPE_RADIUS == 4

MAX_ITERATIONS(v) == IF v = "A" THEN MAX_ITERATIONS_A ELSE MAX_ITERATIONS_B

\* the values an uninitialised shader variable may hold
GarbageInts == {-1, 0, 57}

\* the sessions whose frames are evaluated: the canvas size given to
\* window.onload, then no drag (down = move) or one press at down dragged to
\* move; and of that frame either every pixel (mode "frame") or the pixel
\* (x, y) alone (mode "pixel")
EvalJobs ==
    {[variant |-> "A", size |-> <<800, 600>>, down |-> <<0, 0>>, move |-> <<0, 0>>,
      mode |-> "pixel", x |-> q[1], y |-> q[2]] :
        q \in {<<400, 300>>, <<0, 0>>, <<500, 300>>}}
    \cup
    {[variant |-> "B", size |-> <<800, 600>>, down |-> <<0, 0>>, move |-> <<0, 0>>,
      mode |-> "pixel", x |-> q[1], y |-> q[2]] :
        q \in {<<0, 300>>, <<400, 300>>, <<200, 300>>, <<1000, 300>>}}
    \cup
    {[variant |-> "B", size |-> <<800, 600>>, down |-> <<600, 0>>, move |-> <<0, 0>>,
      mode |-> "pixel", x |-> 400, y |-> 300],
     [variant |-> "B", size |-> <<2, 2>>, down |-> <<0, 0>>, move |-> <<0, 200>>,
      mode |-> "frame", x |-> 0, y |-> 0],
     [variant |-> "B", size |-> <<2, 1>>, down |-> <<60, 0>>, move |-> <<0, 120>>,
      mode |-> "frame", x |-> 0, y |-> 0]}

VARIABLES
    job,                \* the session and pixels being evaluated (an element of EvalJobs)
    epc,                \* "idle", "pixel" (about to map a pixel), "loop", "store", "done"
    px, py,             \* the pixel being computed: x, y (gl_FragCoord - 0.5 in variant A)
    c, z,               \* <<real, imag>> of c and of z
    iteration,
    i,                  \* loop counter of the shader's for loop
    escaped,            \* the escape-radius test ended the loop
    data,               \* the writes to the pixel buffer so far, <<index, byte>> each
    counts,             \* per pixel finished, its position and iteration count
    color               \* the grey level given to gl_FragColor, variant A

evalVars == <<job, epc, px, py, c, z, iteration, i, escaped, data, counts, color>>
vars == <<ctlVars, evalVars>>

EvalIdle ==
    /\ job = [mode |-> "none"] /\ epc = "idle" /\ px = 0 /\ py = 0
    /\ c = <<Zero, Zero>> /\ z = <<Zero, Zero>>
    /\ iteration = 0 /\ i = 0 /\ escaped = FALSE
    /\ data = <<>> /\ counts = <<>> /\ color = Zero

\* a JavaScript number as a Decimal (exact: new Decimal(n) reads the digits
\* of n, and the numbers converted here have fewer than 20 of them)
DecFromDouble(a) ==
    IF a.m = <<>> THEN Zero
    ELSE IF a.e >= 0 THEN NumRound(a.s, BnMul(a.m, BnPow(2, a.e)), 0, FALSE, Dec20)
    ELSE NumRound(a.s, BnMul(a.m, BnPow(5, 0 - a.e)), a.e, FALSE, Dec20)

\* a JavaScript number as the float of a uniform
ToFloat32(a) == NumRound(a.s, a.m, a.e, FALSE, Float32)

\* c of the pixel k along an axis of the given extent, variant B:
\* new Decimal(x).minus(width / 2).dividedBy(zoom).plus(offsetX)
PixelC(k, extent, zm, off) ==
    NumAdd(NumDiv(NumSub(NumFromInt(k, Dec20),
                         DecFromDouble(NumDiv(NumFromInt(extent, Float64),
                                              NumFromInt(2, Float64), Float64)),
                         Dec20),
                  zm, Dec20),
           off, Dec20)

\* c of the fragment k along an axis of the given extent, variant A:
\* (gl_FragCoord / uResolution * 2.0 - 1.0) / uZoom + uOffset, gl_FragCoord
\* being k + 0.5
ShaderC(k, extent, zm, off) ==
    NumAdd(NumDiv(NumSub(NumMul(NumDiv(NumDiv(NumFromInt(2 * k + 1, Float32),
                                              NumFromInt(2, Float32), Float32),
                                       NumFromInt(extent, Float32), Float32),
                                NumFromInt(2, Float32), Float32),
                         NumFromInt(1, Float32), Float32),
                  ToFloat32(zm), Float32),
           ToFloat32(off), Float32)

\* zReal.times(zReal).plus(zImag.times(zImag))  /  dot(z, z)
NormSquared(zz, f) == NumAdd(NumMul(zz[1], zz[1], f), NumMul(zz[2], zz[2], f), f)

\* z * z + c as the loop body computes it
PixelZ(zz, cc) ==
    <<NumAdd(NumSub(NumMul(zz[1], zz[1], Dec20), NumMul(zz[2], zz[2], Dec20), Dec20),
             cc[1], Dec20),
      NumAdd(NumMul(NumMul(zz[1], zz[2], Dec20), NumFromInt(2, Dec20), Dec20),
             cc[2], Dec20)>>

ShaderZ(zz, cc) ==
    <<NumAdd(NumSub(NumMul(zz[1], zz[1], Float32), NumMul(zz[2], zz[2], Float32), Float32),
             cc[1], Float32),
      NumAdd(NumMul(NumMul(NumFromInt(2, Float32), zz[1], Float32), zz[2], Float32),
             cc[2], Float32)>>

InitialZAtC(v, cc) == cc

\* vec2 z = c  /  zReal = new Decimal(0), zImag = new Decimal(0)
InitialZ(v, cc) == IF v = "A" THEN cc ELSE <<Zero, Zero>>

ColorNoBlack(k) ==
    NumFloor(NumMul(NumDiv(NumFromInt(k, Float64), NumFromInt(MAX_ITERATIONS_B, Float64),
                           Float64),
                    NumFromInt(255, Float64), Float64), Float64)

\* iteration === MAX_ITERATIONS ? 0 : Math.floor((iteration / MAX_ITERATIONS) * 255)
Color(k) ==
    IF k = MAX_ITERATIONS_B THEN 0
    ELSE NumFloor(NumMul(NumDiv(NumFromInt(k, Float64),
                                NumFromInt(MAX_ITERATIONS_B, Float64), Float64),
                         NumFromInt(255, Float64), Float64), Float64)

\* the state of the session of job j when its last frame is drawn
EvalInit ==
    \E j \in EvalJobs :
        /\ job = j
        /\ variant = j.variant
        /\ pc = "running"
        /\ glFailure = "none"
        /\ alerts = 0
        /\ exception = FALSE
        /\ zoom = InitialZoom(j.variant)
        /\ canvas = j.size
        /\ wheelIn = 0
        /\ wheelOut = 0
        /\ IF j.down = j.move
           THEN /\ offset = <<Zero, Zero>>
                /\ isDragging = FALSE
                /\ lastMousePosition = <<0, 0>>
                /\ draws = 1
                /\ event = [type |-> "load"]
           ELSE /\ offset = DragOffset(j.variant, <<Zero, Zero>>, InitialZoom(j.variant),
                                       j.size, j.down, j.move)
                /\ isDragging = TRUE
                /\ lastMousePosition = j.move
                /\ draws = 2
                /\ event = [type |-> "mousemove", pos |-> j.move]
        /\ frame = [offset |-> offset, zoom |-> zoom, size |-> canvas]
        /\ epc = "pixel"
        /\ px = j.x /\ py = j.y
        /\ c = <<Zero, Zero>> /\ z = <<Zero, Zero>>
        /\ iteration = 0 /\ i = 0 /\ escaped = FALSE
        /\ data = <<>> /\ counts = <<>> /\ color = Zero

\* shader lines 21-28: garbage is what the uninitialised iteration holds
ShaderBegin(garbage) ==
    /\ variant = "A" /\ epc = "pixel"
    /\ c' = <<ShaderC(px, frame.size[1], frame.zoom, frame.offset[1]),
              ShaderC(py, frame.size[2], frame.zoom, frame.offset[2])>>
    /\ z' = InitialZ("A", c')
    /\ iteration' = garbage
    /\ i' = 0
    /\ escaped' = FALSE
    /\ epc' = "loop"
    /\ UNCHANGED <<job, px, py, data, counts, color>>

\* shader lines 30-34, one pass
ShaderStep ==
    /\ variant = "A" /\ epc = "loop"
    /\ IF i < MAX_ITERATIONS_A
       THEN IF NumCmp(NormSquared(z, Float32), NumFromInt(escapeRadius, Float32)) > 0
            THEN /\ escaped' = TRUE
                 /\ epc' = "store"
                 /\ UNCHANGED <<z, iteration, i>>
            ELSE /\ z' = ShaderZ(z, c)
                 /\ iteration' = i
                 /\ i' = i + 1
                 /\ UNCHANGED <<escaped, epc>>
       ELSE /\ escaped' = FALSE
            /\ epc' = "store"
            /\ UNCHANGED <<z, iteration, i>>
    /\ UNCHANGED <<job, px, py, c, data, counts, color>>

\* shader lines 36-37
ShaderEnd ==
    /\ variant = "A" /\ epc = "store"
    /\ color' = NumDiv(NumFromInt(iteration, Float32),
                       NumFromInt(MAX_ITERATIONS_A, Float32), Float32)
    /\ counts' = Append(counts, [x |-> px, y |-> py, iteration |-> iteration])
    /\ epc' = "done"
    /\ UNCHANGED <<job, px, py, c, z, iteration, i, escaped, data>>

\* calculateMandelbrot lines 87-92
PixelBegin ==
    /\ variant = "B" /\ epc = "pixel"
    /\ c' = <<PixelC(px, frame.size[1], frame.zoom, frame.offset[1]),
              PixelC(py, frame.size[2], frame.zoom, frame.offset[2])>>
    /\ z' = InitialZ("B", c')
    /\ iteration' = 0
    /\ escaped' = FALSE
    /\ epc' = "loop"
    /\ UNCHANGED <<job, px, py, i, data, counts, color>>

\* calculateMandelbrot lines 94-99, one test of the while condition and, when
\* it holds, one pass through the body
PixelStep ==
    /\ variant = "B" /\ epc = "loop"
    /\ IF iteration < MAX_ITERATIONS_B
       THEN IF NumCmp(NormSquared(z, Dec20), NumFromInt(ESCAPE_RADIUS, Dec20)) < 0
            THEN /\ z' = PixelZ(z, c)
                 /\ iteration' = iteration + 1
                 /\ UNCHANGED <<escaped, epc>>
            ELSE /\ escaped' = TRUE
                 /\ epc' = "store"
                 /\ UNCHANGED <<z, iteration>>
       ELSE /\ escaped' = FALSE
            /\ epc' = "store"
            /\ UNCHANGED <<z, iteration>>
    /\ UNCHANGED <<job, px, py, c, i, data, counts, color>>

\* the four writes of lines 103-106 into the Uint8Array of the given length
\* (a write past the end of a typed array is ignored)
PixelWrites(index, col, length) ==
    IF index + 3 < length
    THEN <<<<index, col % 256>>, <<index + 1, col % 256>>, <<index + 2, col % 256>>,
           <<index + 3, 255>>>>
    ELSE <<>>

\* calculateMandelbrot lines 101-106, and the x++ / y++ of lines 85-86
PixelEnd ==
    /\ variant = "B" /\ epc = "store"
    /\ data' = data \o PixelWrites((py * frame.size[1] + px) * 4, Color(iteration),
                                     frame.size[1] * frame.size[2] * 4)
    /\ counts' = Append(counts, [x |-> px, y |-> py, iteration |-> iteration])
    /\ IF job.mode = "pixel" THEN epc' = "done" /\ UNCHANGED <<px, py>>
       ELSE IF px + 1 < frame.size[1] THEN epc' = "pixel" /\ px' = px + 1 /\ py' = py
       ELSE IF py + 1 < frame.size[2] THEN epc' = "pixel" /\ px' = 0 /\ py' = py + 1
       ELSE epc' = "done" /\ UNCHANGED <<px, py>>
    /\ UNCHANGED <<job, c, z, iteration, i, escaped, color>>

----------------------------------------------------------------------------
(* Specifications.                                                         *)

Init == CtlInit /\ EvalIdle

CtlNext ==
    \/ \E fail \in {"none", "context", "compile", "link"}, strict \in BOOLEAN,
          size \in ClientSizes : Onload(fail, strict, size)
    \/ \E size \in ClientSizes : Resize(size)
    \/ \E p \in PointerPositions : handleMouseDown(p)
    \/ \E p \in PointerPositions : handleMouseMove(p)
    \/ handleMouseUp
    \/ \E deltaY \in DeltaYs : handleWheel(deltaY)

Next == CtlNext /\ UNCHANGED evalVars

\* a session of the viewer: startup, then input events in any order
Spec == Init /\ [][Next]_vars

EvalNext ==
    \/ \E garbage \in GarbageInts : ShaderBegin(garbage)
    \/ ShaderStep
    \/ ShaderEnd
    \/ PixelBegin
    \/ PixelStep
    \/ PixelEnd

\* the evaluation of one frame of a session
SpecEval == EvalInit /\ [][EvalNext /\ UNCHANGED ctlVars]_vars

----------------------------------------------------------------------------
(* Properties of the session (specification Spec).                         *)

\* the rounding unit of one update of the offset or of the zoom: 2^-52 for
\* the doubles of variant A, 10^-19 for the 20 digits of variant B
RoundingDigits(v) == IF v = "A" THEN 52 ELSE 19

\* the lowest exponent of the nonzero numbers of S
LowestExp(S) ==
    IF \A a \in S : a.m = <<>> THEN 0
    ELSE CHOOSE e \in {a.e : a \in {b \in S : b.m # <<>>}} :
             \A a \in S : a.m # <<>> => e <= a.e

\* the natural number |a| / radix^e0, for e0 no higher than the exponent of a
Scaled(a, e0, r) == IF a.m = <<>> THEN <<>> ELSE BnMul(a.m, BnPow(r, a.e - e0))

\* |x - y| for the integers of signs sa, sb and magnitudes ma, mb
BnDist(sa, ma, sb, mb) ==
    IF ma = <<>> THEN mb
    ELSE IF mb = <<>> THEN ma
    ELSE IF sa # sb THEN BnAdd(ma, mb)
    ELSE IF BnCmp(ma, mb) >= 0 THEN BnSub(ma, mb) ELSE BnSub(mb, ma)

\* dist <= units * radix^-RoundingDigits * bound, in integers
WithinUnits(dist, units, bound, v) ==
    BnCmp(BnMul(dist, BnPow(Fmt(v).radix, RoundingDigits(v))),
          BnMulSmall(bound, units)) <= 0

\* |a - b| <= units * radix^-RoundingDigits * (|b| + |c|), computed exactly
NearAt(a, b, cc, units, v, e0) ==
    WithinUnits(BnDist(a.s, Scaled(a, e0, Fmt(v).radix), b.s, Scaled(b, e0, Fmt(v).radix)),
                units,
                BnAdd(Scaled(b, e0, Fmt(v).radix), Scaled(cc, e0, Fmt(v).radix)), v)

Near(a, b, cc, units, v) == NearAt(a, b, cc, units, v, LowestExp({a, b, cc}))

RECURSIVE IntPow(_, _)
IntPow(b, k) == IF k <= 0 THEN 1 ELSE b * IntPow(b, k - 1)

\* C1: zoom is strictly positive in every reachable state of both variants.
ZoomPositive == NumSign(zoom) = 1

\* C1 witness: a session that has zoomed in and zoomed out.
ZoomPositiveWitness ==
    /\ pc = "running" /\ event.type = "wheel" /\ wheelIn >= 1 /\ wheelOut >= 1
    /\ NumSign(zoom) = 1 /\ frame.zoom = zoom

\* the offset the claim C3 prescribes for a drag: each displacement divided
\* by the viewport extent times zoom, in the arithmetic of the variant
OffsetByViewport(v, off, zm, size, d) ==
    <<NumSub(off[1], NumDiv(NumFromInt(d[1], Fmt(v)),
                            NumMul(NumFromInt(size[1], Fmt(v)), zm, Fmt(v)), Fmt(v)),
             Fmt(v)),
      NumAdd(off[2], NumDiv(NumFromInt(d[2], Fmt(v)),
                            NumMul(NumFromInt(size[2], Fmt(v)), zm, Fmt(v)), Fmt(v)),
             Fmt(v))>>

\* the same with the displacement divided by zoom alone
OffsetByZoom(v, off, zm, d) ==
    <<NumSub(off[1], NumDiv(NumFromInt(d[1], Fmt(v)), zm, Fmt(v)), Fmt(v)),
      NumAdd(off[2], NumDiv(NumFromInt(d[2], Fmt(v)), zm, Fmt(v)), Fmt(v))>>

Displacement(from, to) == <<to[1] - from[1], to[2] - from[2]>>

\* what a pointer move while dragging does besides changing the offset
DragMoveFrame ==
    /\ lastMousePosition' = event'.pos
    /\ draws' = draws + 1
    /\ frame' = [offset |-> offset', zoom |-> zoom, size |-> canvas]
    /\ zoom' = zoom
    /\ isDragging' = isDragging

\* C3 as stated: in both variants a pointer move while dragging takes
\* dx / (viewport width * zoom) from the real offset and adds
\* dy / (viewport height * zoom) to the imaginary one, records the pointer
\* position, draws one frame and leaves zoom and the drag flag alone.
DragMoveByViewport ==
    [][event'.type = "mousemove" /\ isDragging =>
            /\ offset' = OffsetByViewport(variant, offset, zoom, canvas,
                                          Displacement(lastMousePosition, event'.pos))
            /\ DragMoveFrame]_vars

\* C3 amended: the divisor is viewport extent * zoom in variant A and zoom
\* alone in variant B; the rest as stated.
DragMovePerVariant ==
    [][event'.type = "mousemove" /\ isDragging =>
            /\ offset' = IF variant = "A"
                         THEN OffsetByViewport(variant, offset, zoom, canvas,
                                               Displacement(lastMousePosition, event'.pos))
                         ELSE OffsetByZoom(variant, offset, zoom,
                                           Displacement(lastMousePosition, event'.pos))
            /\ DragMoveFrame]_vars

\* C3 witness: variant B has just moved the offset on both axes by a drag.
DragMoveWitness ==
    /\ variant = "B" /\ event.type = "mousemove" /\ isDragging
    /\ offset[1] # Zero /\ offset[2] # Zero
    /\ frame.offset = offset /\ lastMousePosition = event.pos

\* C4: a pointer move while not dragging changes nothing of the viewport
\* state and draws no frame.
IdleMoveIsNoOp ==
    [][event'.type = "mousemove" /\ ~isDragging =>
            UNCHANGED <<offset, zoom, isDragging, lastMousePosition, canvas,
                        draws, frame>>]_vars

\* C4 witness: a pointer move has been received after a drag that moved the
\* offset had ended.
IdleMoveWitness ==
    /\ event.type = "mousemove" /\ ~isDragging
    /\ offset # <<Zero, Zero>> /\ lastMousePosition # event.pos

\* C5 as stated: a startup failure is reported, no frame is ever drawn and no
\* uncaught exception leaves window.onload.
StartupFailureHandled ==
    glFailure # "none" => alerts >= 1 /\ draws = 0 /\ ~exception

\* the viewport after a pointer move to p while dragging
Dragged(view, p) ==
    [offset |-> DragOffset(variant, view.offset, zoom, canvas, view.last, p),
     last |-> p]

\* a move to p from the current state, and the move back to where the
\* pointer was
DragPair(there) == [there |-> there, back |-> Dragged(there, lastMousePosition)]

DragThereAndBack(p) ==
    DragPair(Dragged([offset |-> offset, last |-> lastMousePosition], p))

DragExactlyBack(pair) ==
    /\ pair.back.offset = offset
    /\ pair.back.last = lastMousePosition

\* C8 as stated: while dragging, a move by (dx, dy) followed by a move by
\* (-dx, -dy) restores the offset and the last pointer position exactly.
DragReversible ==
    pc = "running" /\ isDragging =>
        \A p \in PointerPositions : DragExactlyBack(DragThereAndBack(p))

DragNearlyBack(pair) ==
    /\ \A k \in 1..2 :
           Near(pair.back.offset[k], offset[k], pair.there.offset[k], 1, variant)
    /\ pair.back.last = lastMousePosition

\* C8 amended: the last pointer position is restored exactly, and each
\* component of the offset to within the rounding of the two updates: it
\* differs from its value before the first move by at most 2^-52 (variant A)
\* or 10^-19 (variant B) times the sum of its magnitudes before and after the
\* first move.
DragReversibleWithinRounding ==
    pc = "running" /\ isDragging =>
        \A p \in PointerPositions : DragNearlyBack(DragThereAndBack(p))

DragInexactlyBack(pair) ==
    /\ pair.there.last # lastMousePosition
    /\ pair.back.last = lastMousePosition
    /\ pair.back.offset # offset

\* C8 witness: a dragging state, reached by a drag that moved the offset,
\* from which a move and its reverse bring the pointer back but not the
\* offset.
DragReversibleWitness ==
    /\ pc = "running" /\ isDragging /\ offset[1] # Zero /\ offset[2] # Zero
    /\ \E p \in PointerPositions : DragInexactlyBack(DragThereAndBack(p))

\* |zoom * p - initialZoom * q| <= units * rounding unit * initialZoom * q
ZoomRatioAt(p, q, units, v, e0) ==
    WithinUnits(BnDist(0, BnMulSmall(Scaled(zoom, e0, Fmt(v).radix), p),
                       0, BnMulSmall(Scaled(InitialZoom(v), e0, Fmt(v).radix), q)),
                units,
                BnMulSmall(Scaled(InitialZoom(v), e0, Fmt(v).radix), q), v)

\* zoom = initialZoom * (11 / 10)^d up to the given number of rounding units
ZoomNearPowerOf(d, units) ==
    ZoomRatioAt(IntPow(10, d) * IntPow(11, 0 - d), IntPow(11, d) * IntPow(10, 0 - d),
                units, variant, LowestExp({zoom, InitialZoom(variant)}))

ZoomNearPower(units) == ZoomNearPowerOf(wheelIn - wheelOut, units * (wheelIn + wheelOut))

WheelPairNearIdentity(units) ==
    Near(WheelZoom(variant, WheelZoom(variant, zoom, -100), 100), zoom, Zero,
         units, variant)

\* zoom changes at wheel events only, and a wheel event changes nothing
\* else of the viewport
WheelAloneZooms ==
    /\ zoom' # zoom => event'.type = "wheel"
    /\ event'.type = "wheel" => UNCHANGED <<offset, isDragging, lastMousePosition>>

\* the states in which zoom has its initial value or the value a wheel event
\* has just given it: by WheelAloneZooms every value zoom takes is seen in
\* one of them, together with the counts of the wheel events behind it
ZoomIsFresh == pc = "running" /\ event.type \in {"load", "wheel"}

\* C9 as stated: a zoom-in followed by a zoom-out restores zoom exactly, zoom
\* equals initialZoom * 1.1^(i - o) after i zoom-in and o other wheel events,
\* and wheel events leave the offset and the drag state alone.
WheelExact ==
    /\ [](ZoomIsFresh => WheelPairNearIdentity(0) /\ ZoomNearPower(0))
    /\ [][WheelAloneZooms]_vars

\* C9 amended: the same up to rounding: with u = 2^-52 in variant A and
\* u = 10^-19 in variant B, the zoom-in / zoom-out pair restores zoom to
\* within 4 * u of its value, relatively, and zoom is within 2 * (i + o) * u
\* of initialZoom * 1.1^(i - o), relatively; wheel events leave the offset
\* and the drag state alone.
WheelWithinRounding ==
    /\ [](ZoomIsFresh => WheelPairNearIdentity(4) /\ ZoomNearPower(2))
    /\ [][WheelAloneZooms]_vars

\* C9 witness: a zoom-in and a zoom-out have been received during a drag.
WheelWitness ==
    /\ event.type = "wheel" /\ wheelIn >= 1 /\ wheelOut >= 1 /\ isDragging
    /\ frame.zoom = zoom

----------------------------------------------------------------------------
(* Properties of the evaluation of a frame (specification SpecEval).       *)

EvalFmt(v) == IF v = "A" THEN Float32 ELSE Dec20

\* the loop of the current pixel has ended
PixelEvaluated == epc \in {"store", "done"}

\* C2 as stated: a point whose orbit did not escape within the maximum number
\* of iterations is given exactly that maximum as its count (100 in variant
\* A, 1000 in variant B); in particular the centre pixel (400, 300) of the
\* 800 x 600 viewport of variant A at zoom 0.5 and offset (0, 0).
NeverEscapedSaturates ==
    /\ PixelEvaluated /\ ~escaped => iteration = MAX_ITERATIONS(variant)
    /\ PixelEvaluated /\ variant = "A" /\ <<px, py>> = <<400, 300>>
           /\ frame.size = <<800, 600>> /\ frame.offset = <<Zero, Zero>>
           /\ frame.zoom = InitialZoom("A")
       => iteration = MAX_ITERATIONS_A

\* the grey level of a pixel whose count is k
Intensity(k) == IF k = MAX_ITERATIONS_B THEN 0 ELSE (255 * k) \div MAX_ITERATIONS_B

\* the four writes of the n-th pixel evaluated
WritesOf(n) == SubSeq(data, 4 * n - 3, 4 * n)

PixelBytes(index, v) ==
    <<<<index, v>>, <<index + 1, v>>, <<index + 2, v>>, <<index + 3, 255>>>>

\* C6: in variant B every pixel (x, y) of the viewport evaluated so far has
\* had the four bytes at (y * width + x) * 4 written as (v, v, v, 255), v
\* being 0 for the count 1000 and floor(255 * k / 1000) for a count k below
\* it, and once the frame is complete every byte of the buffer has been
\* written exactly once.
BufferLayout ==
    variant = "B" =>
        /\ Len(data) = 4 * Len(counts)
        /\ \A n \in 1..Len(counts) :
               counts[n].x < frame.size[1] /\ counts[n].y < frame.size[2] =>
                   WritesOf(n) = PixelBytes((counts[n].y * frame.size[1] + counts[n].x) * 4,
                                            Intensity(counts[n].iteration))
        /\ epc = "done" /\ job.mode = "frame" =>
               /\ Len(data) = 4 * frame.size[1] * frame.size[2]
               /\ \A b \in 0..(Len(data) - 1) :
                      Cardinality({j \in 1..Len(data) : data[j][1] = b}) = 1

\* C6 witness: a complete frame with a pixel that never escaped and pixels
\* of different grey levels.
BufferLayoutWitness ==
    /\ variant = "B" /\ epc = "done" /\ job.mode = "frame"
    /\ \E n \in 1..Len(counts) : counts[n].iteration = MAX_ITERATIONS_B
    /\ \E n \in 1..Len(counts) : data[4 * n][2] = 255 /\ data[4 * n - 1][2] = 3
    /\ \E n \in 1..Len(counts) : data[4 * n - 1][2] = 2

OutsideEscapeRadius(cc) ==
    NumCmp(NormSquared(cc, Dec20), NumFromInt(ESCAPE_RADIUS, Dec20)) > 0

\* C7 as stated: in variant B a point c with |c|^2 > 4 has the count 0 and
\* the intensity 0; so has c = 3 of pixel x = 1000, y = 300 of the 800 x 600
\* viewport at zoom 200 and offset (0, 0).
OutsidePointCountsZero ==
    variant = "B" /\ PixelEvaluated /\ OutsideEscapeRadius(c) =>
        iteration = 0 /\ Color(iteration) = 0

\* C7 amended: such a point has the count 1 (the one pass from z = 0 to
\* z = c) and the intensity 0.
OutsidePointCountsOne ==
    variant = "B" /\ PixelEvaluated /\ OutsideEscapeRadius(c) =>
        iteration = 1 /\ Color(iteration) = 0

\* C7 witness: the pixel x = 1000, y = 300 has been evaluated at c = 3.
OutsidePointWitness ==
    /\ variant = "B" /\ epc = "done" /\ <<px, py>> = <<1000, 300>>
    /\ frame = [offset |-> <<Zero, Zero>>, zoom |-> NumFromInt(200, Dec20),
                size |-> <<800, 600>>]
    /\ c = <<NumFromInt(3, Dec20), Zero>>
    /\ iteration = 1 /\ escaped

\* C10 as stated: the loop stops early only where |z|^2 is strictly greater
\* than 4; c = -2 of pixel (0, 300) of the 800 x 600 viewport of variant B
\* at zoom 200 and offset (0, 0), whose orbit never exceeds 4, has the count
\* 1000.
EscapeIsStrict ==
    /\ PixelEvaluated /\ escaped =>
           NumCmp(NormSquared(z, EvalFmt(variant)),
                  NumFromInt(escapeRadius, EvalFmt(variant))) > 0
    /\ PixelEvaluated /\ variant = "B" /\ c = <<NumFromInt(-2, Dec20), Zero>> =>
           iteration = MAX_ITERATIONS_B

====
